---- MODULE Spec2Model ----
(***************************************************************************)
(* Model of mixtura's command layer (src/src/commands.py), its provider    *)
(* registry and aggregator (src/src/manager.py) and the pieces of          *)
(* src/src/utils.py they depend on; of the nix adapter's version           *)
(* extraction (src/src/modules/nixpkgs/provider.py); and of the registry's *)
(* lazy construction and adapter discovery (src/src/manager.py).           *)
(*                                                                         *)
(* Strings are sequences of one-character strings, so that split('#', 1),  *)
(* split(','), strip(), lower() and the substring test are computed the    *)
(* way Python computes them.                                               *)
(***************************************************************************)
EXTENDS Integers, Sequences, FiniteSets, TLC

VARIABLES
    managers,       \* ModuleManager.managers: provider names, registration order
    cmd,            \* the verb: "add", "remove" or "upgrade"
    args,           \* args.packages: the tokens of the command line
    stdin,          \* the lines the user will type, in order
    pc,             \* position in the command
    ti,             \* index in args of the token the for-loop is at
    items,          \* items of the current unqualified token not yet handled
    groups,         \* packages_to_install / packages_to_remove / packages_map
    providers_full, \* cmd_upgrade's providers_full
    si,             \* index in get_all_managers() of the fan-out loop
    all_results,    \* search_all's all_results / cmd_remove's matches
    queried,        \* per provider of the running fan-out: what it answered
    origin,         \* per entry of all_results: the provider that produced it
    di,             \* index of the group (or full provider) being dispatched
    log,            \* what the command did and printed, in order
    exit,           \* how the process ended
    \* NixProvider.list_packages: one call of _extract_version
    store_paths,    \* its argument store_paths
    pkg_name,       \* its argument pkg_name
    vpc,            \* position in the call
    refq,           \* what the nix-store reference query did, once it was made
    version,        \* the value returned
    \* ModuleManager.get_instance and discover_modules
    instance,       \* ModuleManager._instance: 0 for None, else an object's index
    objs,           \* the ModuleManager objects constructed so far
    tpc,            \* per thread: position in get_instance
    tobj,           \* per thread: the object its cls() is constructing
    tmi,            \* per thread: index of the package discover_modules is at
    calls,          \* per thread: get_instance calls started
    returned,       \* the objects get_instance has returned, in order
    dlog            \* the warnings discovery logged, in order

\* the state of a command
cvars == << managers, cmd, args, stdin, pc, ti, items, groups, providers_full,
            si, all_results, queried, origin, di, log, exit >>

\* the state of a version extraction
vvars == << store_paths, pkg_name, vpc, refq, version >>

\* the state of the registry's construction
dvars == << instance, objs, tpc, tobj, tmi, calls, returned, dlog >>

vars == << cvars, vvars, dvars >>

----------------------------------------------------------------------------
(* Bounds of the model *)

\* at most this many tokens on one command line
MaxTokens == 2

\* at most this many characters after the hash of a store name
MaxNameLen == 4

\* at most this many get_instance calls by one thread
MaxCalls == 2

----------------------------------------------------------------------------
(* Strings *)

NIXPKGS == << "n", "i", "x", "p", "k", "g", "s" >>
FLATPAK == << "f", "l", "a", "t", "p", "a", "k" >>

\* a dict key that is not there
Absent == << "" >>

HasChar(s, c) == \E i \in 1..Len(s) : s[i] = c

FirstIndex(s, c) == CHOOSE i \in 1..Len(s) : s[i] = c /\ \A j \in 1..(i - 1) : s[j] # c

\* s.split(c, 1) for an s that contains c: << before, after >>
SplitOnce(s, c) ==
    LET i == FirstIndex(s, c)
    IN  << SubSeq(s, 1, i - 1), SubSeq(s, i + 1, Len(s)) >>

RECURSIVE Split(_, _)
\* s.split(c): always at least one piece, empty pieces kept
Split(s, c) ==
    IF ~HasChar(s, c) THEN << s >>
    ELSE LET i == FirstIndex(s, c)
         IN  << SubSeq(s, 1, i - 1) >> \o Split(SubSeq(s, i + 1, Len(s)), c)

RECURSIVE LStrip(_)
LStrip(s) == IF s # << >> /\ Head(s) = " " THEN LStrip(Tail(s)) ELSE s

RECURSIVE RStrip(_)
RStrip(s) ==
    IF s # << >> /\ s[Len(s)] = " " THEN RStrip(SubSeq(s, 1, Len(s) - 1)) ELSE s

\* s.strip()
Strip(s) == RStrip(LStrip(s))

\* the mutant of SplitItems: pieces neither trimmed nor dropped
SplitItems_raw(s) == Split(s, ",")

\* [p.strip() for p in s.split(',') if p.strip()]
SplitItems(s) ==
    LET pieces == Split(s, ",")
        stripped == [k \in 1..Len(pieces) |-> Strip(pieces[k])]
    IN  SelectSeq(stripped, LAMBDA p : p # << >>)

LowerChar(c) == IF c = "A" THEN "a" ELSE IF c = "B" THEN "b" ELSE c

\* s.lower()
Lower(s) == [k \in 1..Len(s) |-> LowerChar(s[k])]

\* needle in hay
Contains(hay, needle) ==
    \E k \in 0..(Len(hay) - Len(needle)) : SubSeq(hay, k + 1, k + Len(needle)) = needle

----------------------------------------------------------------------------
(* utils.Style *)

\* the attributes class Style defines (utils.py:9-25). commands.py also reads
\* Style.SUCCESS (lines 60, 178), Style.INFO (66, 182) and Style.WARNING
\* (188), which are not among them: evaluating such an f-string raises
\* AttributeError, which nothing between there and main() catches.
StyleAttrs == { "RESET", "BOLD", "DIM", "RED", "GREEN", "YELLOW", "BLUE", "CYAN", "ASCII" }

\* evaluating an f-string that reads Style.<a> for every a in used
Renders(used) == used \subseteq StyleAttrs

----------------------------------------------------------------------------
(* Dict[str, List[str]] with insertion order: a sequence of [prov, pkgs] *)

HasGroup(g, p) == \E k \in 1..Len(g) : g[k].prov = p

\* g.get(p, [])
GroupOf(g, p) ==
    IF HasGroup(g, p) THEN g[CHOOSE k \in 1..Len(g) : g[k].prov = p].pkgs ELSE << >>

\* the mutant of Extend: a new key goes in front of the older ones
Extend_front(g, p, its) ==
    IF HasGroup(g, p)
    THEN [k \in 1..Len(g) |-> IF g[k].prov = p
                               THEN [prov |-> p, pkgs |-> g[k].pkgs \o its]
                               ELSE g[k]]
    ELSE << [prov |-> p, pkgs |-> its] >> \o g

\* if p not in g: g[p] = []  ;  g[p].extend(its)
Extend(g, p, its) ==
    IF HasGroup(g, p)
    THEN [k \in 1..Len(g) |-> IF g[k].prov = p
                               THEN [prov |-> p, pkgs |-> g[k].pkgs \o its]
                               ELSE g[k]]
    ELSE Append(g, [prov |-> p, pkgs |-> its])

----------------------------------------------------------------------------
(* The inputs: command lines, what the user types, what the adapters answer *)

ItemA == << "a" >>
ItemB == << "b" >>

\* flatpak#a, b
TokExplicit == FLATPAK \o << "#", "a", ",", " ", "b" >>
\* nixpkgs#a,
TokTrailing == NIXPKGS \o << "#", "a", "," >>
\* flatpak#a#b
TokTwoHashes == FLATPAK \o << "#", "a", "#", "b" >>
\* flatpak#
TokNoItems == FLATPAK \o << "#" >>
\* #a
TokNoProvider == << "#", "a" >>
\* a
TokBare == << "a" >>
\* " A,b,"
TokBareList == << " ", "A", ",", "b", "," >>
\* nixpkgs
TokProviderName == NIXPKGS

Tokens ==
    { TokExplicit, TokTrailing, TokTwoHashes, TokNoItems, TokNoProvider, TokBare,
      TokBareList, TokProviderName }

\* the command lines of n0..MaxTokens tokens
TokenSeqs(n0) == UNION { [1..n -> Tokens] : n \in n0..MaxTokens }

\* the registries discovery may have left: both adapters, or flatpak alone
\* when the nixpkgs adapter failed to load (looked at in upgrade, whose
\* default provider is nixpkgs)
Registries(c) ==
    IF c = "upgrade" THEN { << FLATPAK, NIXPKGS >>, << FLATPAK >> }
    ELSE { << FLATPAK, NIXPKGS >> }

\* what the user is going to type at the prompts
Scripts == { << "1" >>, << "2" >>, << "s" >>, << "a", "Y" >>, << "a", "y" >> }

\* a search result as PackageManager.search documents it: name, version and
\* description are there, 'id' and 'provider' may or may not be
Result(n, i, p) == [name |-> n, id |-> i, provider |-> p]

\* the result lists an adapter named p may return from search(query)
ResultLists(p) ==
    { << >>,
      << Result(ItemA, p \o << "#" >> \o ItemA, p) >>,
      << Result(ItemB, << >>, Absent), Result(ItemA, << "x" >>, p) >>,
      << Result(ItemA, << "y" >>, << "o" >>) >> }

\* an installed entry as list_packages returns it: 'id' may be missing
Entry(n, i) == [name |-> n, id |-> i, provider |-> Absent]

\* the lists an adapter may return from list_packages()
InstalledLists ==
    { << >>,
      << Entry(ItemA, << >>) >>,
      << Entry(<< "A", "b" >>, << "x" >>), Entry(ItemA, << >>) >> }

\* what one provider of the fan-out does when it is reached: what its
\* is_available() says, and what its search / list_packages call does if it
\* is made: raises, or returns one of lists
Answers(lists) ==
    { [avail |-> av, raised |-> TRUE, results |-> << >>] : av \in BOOLEAN }
    \cup { [avail |-> av, raised |-> FALSE, results |-> l] : av \in BOOLEAN, l \in lists }

\* one line of the command's trace
Ev(e, w, p, k, t) == [ev |-> e, what |-> w, prov |-> p, pkgs |-> k, tok |-> t]

----------------------------------------------------------------------------
(* ModuleManager *)

\* the mutant of get_manager: every name finds an adapter
get_manager_any(name) == TRUE

\* the mutant of get_manager: no name finds an adapter
get_manager_none(name) == FALSE

\* get_manager(name): the name is a key of self.managers
get_manager(name) == \E k \in 1..Len(managers) : managers[k] = name

\* the mutant of get_all_managers: the adapters in reverse order
get_all_managers_reversed == [k \in 1..Len(managers) |-> managers[Len(managers) + 1 - k]]

\* get_all_managers(): the adapters in the dict's order, which is the order
\* they were registered in
get_all_managers == managers

\* the mutant of Aggregate: a failing provider voids what was collected
Aggregate_voids(acc, a) ==
    IF a.avail /\ a.raised THEN << >>
    ELSE IF a.avail /\ a.results # << >> THEN acc \o a.results ELSE acc

\* the mutant of Aggregate: a provider's results go in front
Aggregate_front(acc, a) ==
    IF a.avail /\ ~a.raised /\ a.results # << >> THEN a.results \o acc ELSE acc

\* one iteration of search_all's loop on all_results
Aggregate(acc, a) ==
    IF a.avail /\ ~a.raised /\ a.results # << >> THEN acc \o a.results ELSE acc

\* the provider and position each entry of an answer came from
Origins(p, a) == [k \in 1..Len(a.results) |-> [prov |-> p, pos |-> k]]

----------------------------------------------------------------------------
(* cmd_add and cmd_remove: the token loop *)

\* the mutant of ResolveToken: an unqualified token goes to a default
\* provider, as ModuleManager.resolve_packages does
ResolveToken_default(g, arg) ==
    IF HasChar(arg, "#")
    THEN LET parts == SplitOnce(arg, "#")
         IN  Extend(g, parts[1], SplitItems(parts[2]))
    ELSE Extend(g, NIXPKGS, SplitItems(arg))

\* the groups after the token loop's own work on arg, before any
\* disambiguation of its items
ResolveToken(g, arg) ==
    IF HasChar(arg, "#")
    THEN LET parts == SplitOnce(arg, "#")
         IN  Extend(g, parts[1], SplitItems(parts[2]))
    ELSE g

\* the locals of one item's disambiguation, before it and after it
NoFanOut ==
    /\ si' = 0
    /\ all_results' = << >>
    /\ queried' = << >>
    /\ origin' = << >>

\* for arg in args.packages, '#' in arg
ParseExplicit ==
    /\ pc = "parse" /\ cmd \in { "add", "remove" }
    /\ ti <= Len(args) /\ HasChar(args[ti], "#")
    /\ groups' = ResolveToken(groups, args[ti])
    /\ ti' = ti + 1
    /\ UNCHANGED << managers, cmd, args, stdin, pc, items, providers_full, si,
                    all_results, queried, origin, di, log, exit >>
    /\ UNCHANGED << vvars, dvars >>

\* for arg in args.packages, no '#' in arg
ParseAmbiguous ==
    /\ pc = "parse" /\ cmd \in { "add", "remove" }
    /\ ti <= Len(args) /\ ~HasChar(args[ti], "#")
    /\ groups' = ResolveToken(groups, args[ti])
    /\ items' = SplitItems(args[ti])
    /\ pc' = "items"
    /\ UNCHANGED << managers, cmd, args, stdin, ti, providers_full, si,
                    all_results, queried, origin, di, log, exit >>
    /\ UNCHANGED << vvars, dvars >>

\* for item in items: the loop is over
ItemsDone ==
    /\ pc = "items" /\ items = << >>
    /\ ti' = ti + 1
    /\ pc' = "parse"
    /\ UNCHANGED << managers, cmd, args, stdin, items, groups, providers_full, si,
                    all_results, queried, origin, di, log, exit >>
    /\ UNCHANGED << vvars, dvars >>

\* for item in items: log_task, then search_all(item) is entered (add) or
\* the scan of the installed lists begins (remove)
ItemStart ==
    /\ pc = "items" /\ items # << >>
    /\ pc' = IF cmd = "add" THEN "search" ELSE "list"
    /\ si' = 1
    /\ all_results' = << >>
    /\ queried' = << >>
    /\ origin' = << >>
    /\ log' = Append(log, Ev(IF cmd = "add" THEN "search_all" ELSE "scan_installed",
                             "", << >>, << Head(items) >>, ti))
    /\ UNCHANGED << managers, cmd, args, stdin, ti, items, groups, providers_full,
                    di, exit >>
    /\ UNCHANGED << vvars, dvars >>

\* search_all: one provider of `for mgr in self.get_all_managers()`
SearchStep ==
    /\ pc = "search" /\ si <= Len(managers)
    /\ \E a \in Answers(ResultLists(managers[si])) :
          /\ all_results' = Aggregate(all_results, a)
          /\ origin' = Aggregate(origin,
                                 [a EXCEPT !.results = Origins(managers[si], a)])
          /\ queried' = Append(queried, [prov |-> managers[si], avail |-> a.avail,
                                         raised |-> a.raised, results |-> a.results])
    /\ si' = si + 1
    /\ UNCHANGED << managers, cmd, args, stdin, pc, ti, items, groups,
                    providers_full, di, log, exit >>
    /\ UNCHANGED << vvars, dvars >>

\* cmd_add after search_all returned: no results (warn, next item), or the
\* 'Found N matches' header and the first line of the numbered list, whose
\* f-string reads Style.SUCCESS. As Style stands that line raises, so
\* input() at line 66 and the selection code after it are never reached and
\* have no action here.
PresentAdd ==
    /\ pc = "search" /\ si > Len(managers)
    /\ IF all_results = << >>
       THEN /\ log' = Append(log, Ev("warn", "no_packages_found", << >>,
                                     << Head(items) >>, ti))
            /\ items' = Tail(items)
            /\ pc' = "items"
            /\ NoFanOut
            /\ UNCHANGED exit
       ELSE IF Renders({ "BOLD", "RESET" }) /\ Renders({ "SUCCESS", "RESET", "BOLD", "DIM" })
       THEN /\ pc' = "prompt"
            /\ UNCHANGED << items, si, all_results, queried, origin, log, exit >>
       ELSE /\ pc' = "raised"
            /\ exit' = "AttributeError"
            /\ log' = Append(log, Ev("print", "found_matches", << >>,
                                     << Head(items) >>, ti))
            /\ UNCHANGED << items, si, all_results, queried, origin >>
    /\ UNCHANGED << managers, cmd, args, stdin, ti, groups, providers_full, di >>
    /\ UNCHANGED << vvars, dvars >>

----------------------------------------------------------------------------
(* cmd_remove: the installed-listing match *)

\* selected.get('id') or selected.get('name')
PkgId(r) == IF r.id # << >> THEN r.id ELSE r.name

\* the mutant of Matching: every installed entry is a match
Matching_any(item, p, entries) ==
    [k \in 1..Len(entries) |-> [entries[k] EXCEPT !.provider = p]]

\* the entries of one provider's list whose name contains the item, letter
\* case ignored, each tagged pkg['provider'] = mgr.name
Matching(item, p, entries) ==
    LET hit == SelectSeq(entries, LAMBDA e : Contains(Lower(e.name), Lower(item)))
    IN  [k \in 1..Len(hit) |-> [hit[k] EXCEPT !.provider = p]]

\* the mutant of NotScheduled: nothing is filtered out
NotScheduled_all(g, ms) == ms

\* filtered_matches: the matches whose id is not in the provider's group yet
NotScheduled(g, ms) ==
    SelectSeq(ms, LAMBDA m : ~\E k \in 1..Len(GroupOf(g, m.provider)) :
                                    GroupOf(g, m.provider)[k] = PkgId(m))

\* one provider of `for mgr in manager.get_all_managers()`
ListStep ==
    /\ pc = "list" /\ si <= Len(managers)
    /\ \E a \in Answers(InstalledLists) :
          LET found == [a EXCEPT !.results = Matching(Head(items), managers[si], a.results)]
          IN  /\ all_results' = Aggregate(all_results, found)
              /\ origin' = Aggregate(origin,
                                     [found EXCEPT !.results = Origins(managers[si], found)])
              /\ queried' = Append(queried, [prov |-> managers[si], avail |-> a.avail,
                                             raised |-> a.raised, results |-> a.results])
    /\ si' = si + 1
    /\ UNCHANGED << managers, cmd, args, stdin, pc, ti, items, groups,
                    providers_full, di, log, exit >>
    /\ UNCHANGED << vvars, dvars >>

\* cmd_remove after the scan: no match, all matches scheduled already, or
\* the header and the first line of the numbered list (line 178), which
\* raises like cmd_add's: the prompts at lines 182 and 188 are never reached
PresentRemove ==
    /\ pc = "list" /\ si > Len(managers)
    /\ IF all_results = << >>
       THEN /\ log' = Append(log, Ev("warn", "no_installed_match", << >>,
                                     << Head(items) >>, ti))
            /\ items' = Tail(items)
            /\ pc' = "items"
            /\ NoFanOut
            /\ UNCHANGED exit
       ELSE IF NotScheduled(groups, all_results) = << >>
       THEN /\ log' = Append(log, Ev("info", "already_selected", << >>,
                                     << Head(items) >>, ti))
            /\ items' = Tail(items)
            /\ pc' = "items"
            /\ NoFanOut
            /\ UNCHANGED exit
       ELSE IF Renders({ "BOLD", "RESET" }) /\ Renders({ "SUCCESS", "RESET", "BOLD", "DIM" })
       THEN /\ pc' = "prompt"
            /\ all_results' = NotScheduled(groups, all_results)
            /\ UNCHANGED << items, si, queried, origin, log, exit >>
       ELSE /\ pc' = "raised"
            /\ exit' = "AttributeError"
            /\ all_results' = NotScheduled(groups, all_results)
            /\ log' = Append(log, Ev("print", "found_matches", << >>,
                                     << Head(items) >>, ti))
            /\ UNCHANGED << items, si, queried, origin >>
    /\ UNCHANGED << managers, cmd, args, stdin, ti, groups, providers_full, di >>
    /\ UNCHANGED << vvars, dvars >>

----------------------------------------------------------------------------
(* cmd_add and cmd_remove: dispatch *)

\* the subprocesses a provider's mutating operation starts, in order, each
\* with the packages it is given: nix runs one per package, and one with
\* --all when there is no package; flatpak runs one install or update for
\* the whole list, and one uninstall per package
Runs(p, op, pkgs) ==
    IF (op = "upgrade" /\ pkgs = << >>) \/ (p = FLATPAK /\ op # "uninstall")
    THEN << pkgs >>
    ELSE [ k \in 1..Len(pkgs) |-> << pkgs[k] >> ]

\* how utils.run ends: the subprocess succeeded, it failed with an exit
\* code, or the user interrupted it
RunOutcomes == { "ok", "exit1", "exit2", "interrupted" }

\* the mutant of ExitOf: a failed subprocess does not end the process
ExitOf_ignored(oc) == "running"

\* how the process stands after utils.run ended with oc: sys.exit with the
\* subprocess's code, sys.exit(130) after an interrupt
ExitOf(oc) ==
    IF oc = "ok" THEN "running"
    ELSE IF oc = "interrupted" THEN "cancelled"
    ELSE oc

\* the status the process ends with
ExitStatus(e) ==
    CASE e = "returned" -> 0
      [] e = "interrupted" -> 0
      [] e = "cancelled" -> 130
      [] e = "exit1" -> 1
      [] e = "exit2" -> 2
      [] e = "AttributeError" -> 1

\* what utils.run reports before it ends the process
Report(oc, p) ==
    IF oc = "ok" THEN << >>
    ELSE IF oc = "interrupted" THEN << Ev("warn", "cancelled", p, << >>, 0) >>
    ELSE << Ev("error", "failed_to_execute", p, << >>, 0) >>

\* the state after the engine called a provider's mutating operation. avs
\* is what the adapter's own is_available() may answer: what the engine was
\* just told when it asked, anything when it did not ask. An unavailable
\* adapter returns at once; an available one starts its subprocesses one
\* after the other: n of them are started, and the last started ends with oc
Called(op, p, pkgs, avs) ==
    \E av \in avs :
       IF ~av
       THEN /\ log' = Append(log, Ev(op, "unavailable", p, pkgs, 0))
            /\ UNCHANGED << pc, exit >>
       ELSE LET runs == Runs(p, op, pkgs)
            IN  \E n \in 0..Len(runs), oc \in RunOutcomes :
                   /\ IF oc = "ok" THEN n = Len(runs) ELSE n >= 1
                   /\ log' = log \o << Ev(op, "called", p, pkgs, 0) >>
                                 \o [ k \in 1..n |->
                                        Ev("run", IF k < n THEN "ok" ELSE oc,
                                           p, runs[k], 0) ]
                                 \o Report(oc, p)
                   /\ exit' = ExitOf(oc)
                   /\ pc' = IF ExitOf(oc) = "running" THEN pc ELSE "exited"

\* main's `except KeyboardInterrupt`: the user interrupts while an adapter's
\* search or list_packages subprocess runs; nothing on the way catches it
Interrupt ==
    /\ pc \in { "search", "list" } /\ si <= Len(managers)
    /\ log' = Append(log, Ev("print", "blank", << >>, << >>, ti))
    /\ pc' = "exited"
    /\ exit' = "interrupted"
    /\ UNCHANGED << managers, cmd, args, stdin, ti, items, groups, providers_full,
                    si, all_results, queried, origin, di >>
    /\ UNCHANGED << vvars, dvars >>

\* the token loop is over: `if not packages_to_install: warn, return`
ParseDone ==
    /\ pc = "parse" /\ cmd \in { "add", "remove" } /\ ti > Len(args)
    /\ IF groups = << >>
       THEN /\ log' = Append(log, Ev("warn", "none_selected", << >>, << >>, 0))
            /\ pc' = "done"
            /\ exit' = "returned"
            /\ UNCHANGED di
       ELSE /\ pc' = "dispatch"
            /\ di' = 1
            /\ UNCHANGED << log, exit >>
    /\ UNCHANGED << managers, cmd, args, stdin, ti, items, groups, providers_full,
                    si, all_results, queried, origin >>
    /\ UNCHANGED << vvars, dvars >>

\* cmd_add: one group of `for provider_name, packages in ...items()`
DispatchAdd ==
    /\ pc = "dispatch" /\ cmd = "add" /\ di <= Len(groups)
    /\ LET g == groups[di]
       IN  IF ~get_manager(g.prov)
           THEN /\ log' = log \o << Ev("warn", "not_found", g.prov, << >>, 0),
                                    Ev("error", "provider_unknown", g.prov, << >>, 0) >>
                /\ UNCHANGED << pc, exit >>
           ELSE \E av \in BOOLEAN :
                   IF av
                   THEN Called("install", g.prov, g.pkgs, { TRUE })
                   ELSE /\ log' = Append(log, Ev("error", "provider_unavailable",
                                                 g.prov, << >>, 0))
                        /\ UNCHANGED << pc, exit >>
    /\ di' = di + 1
    /\ UNCHANGED << managers, cmd, args, stdin, ti, items, groups, providers_full,
                    si, all_results, queried, origin >>
    /\ UNCHANGED << vvars, dvars >>

\* cmd_remove: one group of `for provider_name, packages in ...items()`
DispatchRemove ==
    /\ pc = "dispatch" /\ cmd = "remove" /\ di <= Len(groups)
    /\ LET g == groups[di]
       IN  IF ~get_manager(g.prov)
           THEN /\ log' = Append(log, Ev("warn", "not_found", g.prov, << >>, 0))
                /\ UNCHANGED << pc, exit >>
           ELSE Called("uninstall", g.prov, g.pkgs, BOOLEAN)
    /\ di' = di + 1
    /\ UNCHANGED << managers, cmd, args, stdin, ti, items, groups, providers_full,
                    si, all_results, queried, origin >>
    /\ UNCHANGED << vvars, dvars >>

\* the dispatch loop is over: log_success
Finish ==
    /\ pc = "dispatch" /\ di > Len(groups)
    /\ log' = Append(log, Ev("success", "finished", << >>, << >>, 0))
    /\ pc' = "done"
    /\ exit' = "returned"
    /\ UNCHANGED << managers, cmd, args, stdin, ti, items, groups, providers_full,
                    si, all_results, queried, origin, di >>
    /\ UNCHANGED << vvars, dvars >>

----------------------------------------------------------------------------
(* cmd_upgrade *)

\* packages_map after one token that is not a provider's name
UpgradeToken(g, arg) ==
    IF HasChar(arg, "#")
    THEN LET parts == SplitOnce(arg, "#")
         IN  Extend(g, parts[1], << parts[2] >>)
    ELSE Extend(g, NIXPKGS, << arg >>)

\* no token at all: one provider of `for mgr in manager.get_all_managers()`
UpgradeAllStep ==
    /\ pc = "all" /\ si <= Len(get_all_managers)
    /\ \E av \in BOOLEAN :
          IF av
          THEN Called("upgrade", get_all_managers[si], << >>, { TRUE })
          ELSE UNCHANGED << pc, exit, log >>
    /\ si' = si + 1
    /\ UNCHANGED << managers, cmd, args, stdin, ti, items, groups, providers_full,
                    all_results, queried, origin, di >>
    /\ UNCHANGED << vvars, dvars >>

\* no token at all: the loop is over, log_success and return
UpgradeAllDone ==
    /\ pc = "all" /\ si > Len(get_all_managers)
    /\ log' = Append(log, Ev("success", "complete", << >>, << >>, 0))
    /\ pc' = "done"
    /\ exit' = "returned"
    /\ UNCHANGED << managers, cmd, args, stdin, ti, items, groups, providers_full,
                    si, all_results, queried, origin, di >>
    /\ UNCHANGED << vvars, dvars >>

\* for arg in args.packages
UpgradeParse ==
    /\ pc = "parse" /\ cmd = "upgrade" /\ ti <= Len(args)
    /\ IF get_manager(args[ti])
       THEN /\ providers_full' = Append(providers_full, args[ti])
            /\ UNCHANGED groups
       ELSE /\ groups' = UpgradeToken(groups, args[ti])
            /\ UNCHANGED providers_full
    /\ ti' = ti + 1
    /\ UNCHANGED << managers, cmd, args, stdin, pc, items, si, all_results,
                    queried, origin, di, log, exit >>
    /\ UNCHANGED << vvars, dvars >>

\* the token loop is over
UpgradeParseDone ==
    /\ pc = "parse" /\ cmd = "upgrade" /\ ti > Len(args)
    /\ pc' = "full"
    /\ di' = 1
    /\ UNCHANGED << managers, cmd, args, stdin, ti, items, groups, providers_full,
                    si, all_results, queried, origin, log, exit >>
    /\ UNCHANGED << vvars, dvars >>

\* one provider of `for prov in providers_full`
UpgradeFull ==
    /\ pc = "full" /\ di <= Len(providers_full)
    /\ LET p == providers_full[di]
       IN  IF ~get_manager(p)
           THEN /\ log' = Append(log, Ev("warn", "not_found", p, << >>, 0))
                /\ UNCHANGED << pc, exit >>
           ELSE \E av \in BOOLEAN :
                   IF av
                   THEN Called("upgrade", p, << >>, { TRUE })
                   ELSE UNCHANGED << pc, exit, log >>
    /\ di' = di + 1
    /\ UNCHANGED << managers, cmd, args, stdin, ti, items, groups, providers_full,
                    si, all_results, queried, origin >>
    /\ UNCHANGED << vvars, dvars >>

\* `for prov in providers_full` is over
UpgradeFullDone ==
    /\ pc = "full" /\ di > Len(providers_full)
    /\ pc' = "dispatch"
    /\ di' = 1
    /\ UNCHANGED << managers, cmd, args, stdin, ti, items, groups, providers_full,
                    si, all_results, queried, origin, log, exit >>
    /\ UNCHANGED << vvars, dvars >>

\* one group of `for prov, pkgs in packages_map.items()`
UpgradePkgs ==
    /\ pc = "dispatch" /\ cmd = "upgrade" /\ di <= Len(groups)
    /\ LET g == groups[di]
       IN  IF ~get_manager(g.prov)
           THEN /\ log' = Append(log, Ev("warn", "not_found", g.prov, << >>, 0))
                /\ UNCHANGED << pc, exit >>
           ELSE \E av \in BOOLEAN :
                   IF av
                   THEN Called("upgrade", g.prov, g.pkgs, { TRUE })
                   ELSE UNCHANGED << pc, exit, log >>
    /\ di' = di + 1
    /\ UNCHANGED << managers, cmd, args, stdin, ti, items, groups, providers_full,
                    si, all_results, queried, origin >>
    /\ UNCHANGED << vvars, dvars >>

----------------------------------------------------------------------------
(* NixProvider.list_packages: the version of an installed package *)

\* filename[33:] : a store name is a 32-character hash, a '-', then the rest
HashPrefixLen == 33

\* the string "unknown"
UNKNOWN == << "u", "n", "k", "n", "o", "w", "n" >>

\* an element of storePaths that is no string: the JSON held a number
NotAString == << "<number>" >>

\* c.isdigit()
IsDigit(c) == c \in { "0", "1", "2", "3", "4", "5", "6", "7", "8", "9" }

\* position i of nv holds a '-' that a digit follows
DashDigit(nv, i) == nv[i] = "-" /\ i + 1 <= Len(nv) /\ IsDigit(nv[i + 1])

RECURSIVE ScanFrom(_, _)
\* `for i in range(len(name_ver))` from position i on: the text after the
\* first '-' that a digit follows, "unknown" when the loop ends without one
ScanFrom(nv, i) ==
    IF i > Len(nv) THEN UNKNOWN
    ELSE IF DashDigit(nv, i) THEN SubSeq(nv, i + 1, Len(nv))
    ELSE ScanFrom(nv, i + 1)

\* the mutant of ScanVersion: the text after the last '-' that a digit follows
ScanVersion_last(nv) ==
    IF \E i \in 1..Len(nv) : DashDigit(nv, i)
    THEN LET i == CHOOSE k \in 1..Len(nv) :
                     DashDigit(nv, k) /\ \A j \in (k + 1)..Len(nv) : ~DashDigit(nv, j)
         IN  SubSeq(nv, i + 1, Len(nv))
    ELSE UNKNOWN

\* the version loop of _extract_version and of _resolve_version_fallback
ScanVersion(nv) == ScanFrom(nv, 1)

\* filename[33:], empty when the filename is that short
NameVer(filename) == SubSeq(filename, HashPrefixLen + 1, Len(filename))

\* a computation's outcome: it returned value, or it raised an Exception
Ok(v) == [raised |-> FALSE, value |-> v]
Raise == [raised |-> TRUE, value |-> << >>]

\* the mutant of Try: the exception is not caught
Try_uncaught(r, d) == r

\* try: r  except Exception: d
Try(r, d) == IF r.raised THEN Ok(d) ELSE r

\* the try block of _extract_version on the first store path: path.split
\* raises on a path that is no string
PrimaryBody(path) ==
    IF path = NotAString THEN Raise
    ELSE LET parts == Split(path, "/")
         IN  IF Len(parts) > 3 /\ parts[2] = << "n", "i", "x" >> /\ parts[3] = << "s", "t", "o", "r", "e" >>
             THEN Ok(ScanVersion(NameVer(parts[4])))
             ELSE Ok(UNKNOWN)

\* [line.strip() for line in res.stdout.splitlines() if pkg_name in line]
Candidates(lines, name) ==
    LET hit == SelectSeq(lines, LAMBDA l : Contains(l, name))
    IN  [k \in 1..Len(hit) |-> Strip(hit[k])]

RECURSIVE FirstVersion(_)
\* `for candidate in candidates`: the version of the first candidate that
\* has one
FirstVersion(cands) ==
    IF cands = << >> THEN UNKNOWN
    ELSE LET parts == Split(Head(cands), "/")
         IN  IF Len(parts) < 4 THEN FirstVersion(Tail(cands))
             ELSE IF Len(parts[4]) <= HashPrefixLen THEN FirstVersion(Tail(cands))
             ELSE IF ScanVersion(NameVer(parts[4])) # UNKNOWN
                  THEN ScanVersion(NameVer(parts[4]))
                  ELSE FirstVersion(Tail(cands))

\* the try block of _resolve_version_fallback, the reference query doing q:
\* subprocess.run raises, or nix-store ends with a non-zero code, or it
\* prints lines
FallbackBody(name, q) ==
    IF q.kind = "raised" THEN Raise
    ELSE IF q.kind = "nonzero" THEN Ok(UNKNOWN)
    ELSE Ok(FirstVersion(Candidates(q.lines, name)))

\* the hash of the store names looked at
Hash == << "0", "1", "2", "3", "4", "5", "6", "7", "8", "9", "a", "b", "c", "d", "e", "f", "g", "h", "i", "j", "k", "l", "m", "n", "o", "p", "q", "r", "s", "t", "u", "v" >>

StoreDir == << "/", "n", "i", "x", "/", "s", "t", "o", "r", "e", "/" >>

StorePath(seg) == StoreDir \o seg

Hashed(nv) == Hash \o << "-" >> \o nv

\* the characters the names after the hash are made of
Alphabet == { "-", "b", "6" }

BottlesNameVer == << "b", "o", "t", "t", "l", "e", "s", "-", "u", "n", "w", "r", "a", "p", "p", "e", "d", "-", "6", "0", ".", "1" >>

\* the names after the hash
NameVers == UNION { [1..n -> Alphabet] : n \in 0..MaxNameLen } \cup { BottlesNameVer }

VerB6 == << "b", "-", "6" >>
VerZ6 == << "z", "-", "6" >>

\* the store paths looked at: well-formed ones, the empty string, a name
\* shorter than a hash, a path outside /nix/store, a path without '/', a
\* number, a path below a store name
Paths ==
    { StorePath(Hashed(nv)) : nv \in NameVers }
    \cup { << >>, StorePath(VerB6), << "/", "u", "s", "r", "/", "l", "i", "b", "/" >> \o Hashed(VerB6), VerB6, NotAString,
           StorePath(Hashed(VerB6)) \o << "/", "b" >> }

\* details.get("storePaths", [])
StorePathLists ==
    { << >> } \cup { << p >> : p \in Paths }
    \cup { << StorePath(Hashed(<< "b" >>)), StorePath(Hashed(VerB6)) >> }

\* the package names looked at
PkgNames == { << >>, << "b" >>, << "z" >> }

\* the outputs of nix-store --query --references looked at
RefLists ==
    { << >>,
      << StorePath(Hashed(<< "b" >>)) >>,
      << StorePath(Hashed(<< "b" >>)),
         << " " >> \o StorePath(Hashed(VerZ6 \o << "-", "7" >>)) \o << " " >> >>,
      << StorePath(VerZ6) >>,
      << VerZ6 >>,
      << << "/", "u", "s", "r", "/", "l", "i", "b", "/" >> \o Hashed(VerZ6) >> }

NoQuery == [kind |-> "none", lines |-> << >>]
QueryRaised == [kind |-> "raised", lines |-> << >>]

\* what the reference query may do
Queries ==
    { QueryRaised, [kind |-> "nonzero", lines |-> << >>] }
    \cup { [kind |-> "lines", lines |-> l] : l \in RefLists }

\* _extract_version up to the fallback: no store path, or the first one's
\* version, or on to the reference query
ExtractPrimary ==
    /\ vpc = "call"
    /\ IF store_paths = << >>
       THEN version' = UNKNOWN /\ vpc' = "returned"
       ELSE LET r == Try(PrimaryBody(store_paths[1]), UNKNOWN)
            IN  IF r.raised THEN vpc' = "raised" /\ UNCHANGED version
                ELSE IF r.value # UNKNOWN
                THEN version' = r.value /\ vpc' = "returned"
                ELSE vpc' = "fallback" /\ UNCHANGED version
    /\ UNCHANGED << store_paths, pkg_name, refq >>
    /\ UNCHANGED << cvars, dvars >>

\* _resolve_version_fallback(path, pkg_name). With a path that is no string
\* subprocess.run can only raise
ResolveFallback ==
    /\ vpc = "fallback"
    /\ IF store_paths[1] = << >> \/ pkg_name = << >>
       THEN version' = UNKNOWN /\ vpc' = "returned" /\ UNCHANGED refq
       ELSE \E q \in (IF store_paths[1] = NotAString THEN { QueryRaised } ELSE Queries) :
               LET r == Try(FallbackBody(pkg_name, q), UNKNOWN)
               IN  /\ refq' = q
                   /\ IF r.raised THEN vpc' = "raised" /\ UNCHANGED version
                      ELSE version' = r.value /\ vpc' = "returned"
    /\ UNCHANGED << store_paths, pkg_name >>
    /\ UNCHANGED << cvars, dvars >>

\* no version extraction is looked at
VersionIdle ==
    /\ store_paths = << >> /\ pkg_name = << >> /\ vpc = "idle"
    /\ refq = NoQuery /\ version = << >>

----------------------------------------------------------------------------
(* ModuleManager: get_instance and discover_modules *)

\* the threads that call get_instance
Threads == { 1, 2 }

\* the provider packages pkgutil.iter_modules yields, in its sorted order
\* (the two the registry of the commands is made of)
Packages == << FLATPAK, NIXPKGS >>

LoadedOk == [stage |-> "none", exc |-> "none"]

\* what _load_module's try block may do for one package: register the
\* adapter, or raise ImportError or another Exception while importing the
\* module or while constructing the adapter
LoadOutcomes ==
    { LoadedOk }
    \cup { [stage |-> st, exc |-> e] : st \in { "import", "construct" },
                                      e \in { "ImportError", "Exception" } }

\* get_instance: `if cls._instance is None`
GetInstance(t) ==
    /\ tpc[t] = "idle" /\ calls[t] < MaxCalls
    /\ calls' = [calls EXCEPT ![t] = @ + 1]
    /\ tpc' = [tpc EXCEPT ![t] = IF instance = 0 THEN "init" ELSE "return"]
    /\ UNCHANGED << instance, objs, tobj, tmi, returned, dlog >>
    /\ UNCHANGED << cvars, vvars >>

\* cls(): __init__ sets self.managers = {} and enters discover_modules
Construct(t) ==
    /\ tpc[t] = "init"
    /\ objs' = Append(objs, [managers |-> << >>, outcomes |-> << >>])
    /\ tobj' = [tobj EXCEPT ![t] = Len(objs) + 1]
    /\ tmi' = [tmi EXCEPT ![t] = 1]
    /\ tpc' = [tpc EXCEPT ![t] = "discover"]
    /\ UNCHANGED << instance, calls, returned, dlog >>
    /\ UNCHANGED << cvars, vvars >>

\* discover_modules: _load_module for one package
LoadModule(t) ==
    /\ tpc[t] = "discover" /\ tmi[t] <= Len(Packages)
    /\ \E oc \in LoadOutcomes :
          /\ objs' = [objs EXCEPT ![tobj[t]] =
                        [managers |-> IF oc = LoadedOk
                                      THEN Append(@.managers, Packages[tmi[t]])
                                      ELSE @.managers,
                         outcomes |-> Append(@.outcomes, oc)]]
          /\ dlog' = IF oc.exc = "Exception"
                     THEN Append(dlog, [obj |-> tobj[t], module |-> Packages[tmi[t]]])
                     ELSE dlog
    /\ tmi' = [tmi EXCEPT ![t] = @ + 1]
    /\ UNCHANGED << instance, tpc, tobj, calls, returned >>
    /\ UNCHANGED << cvars, vvars >>

\* discover_modules is over, __init__ returns: cls._instance = cls()
SetInstance(t) ==
    /\ tpc[t] = "discover" /\ tmi[t] > Len(Packages)
    /\ instance' = tobj[t]
    /\ tpc' = [tpc EXCEPT ![t] = "return"]
    /\ UNCHANGED << objs, tobj, tmi, calls, returned, dlog >>
    /\ UNCHANGED << cvars, vvars >>

\* return cls._instance
ReturnInstance(t) ==
    /\ tpc[t] = "return"
    /\ returned' = Append(returned, instance)
    /\ tpc' = [tpc EXCEPT ![t] = "idle"]
    /\ UNCHANGED << instance, objs, tobj, tmi, calls, dlog >>
    /\ UNCHANGED << cvars, vvars >>

\* the registry's construction is not looked at
DiscoveryIdle ==
    /\ instance = 0 /\ objs = << >>
    /\ tpc = [t \in Threads |-> "idle"]
    /\ tobj = [t \in Threads |-> 0]
    /\ tmi = [t \in Threads |-> 0]
    /\ calls = [t \in Threads |-> MaxCalls]
    /\ returned = << >> /\ dlog = << >>

----------------------------------------------------------------------------
(* The program *)

Init ==
    /\ cmd \in { "add", "remove", "upgrade" }
    /\ managers \in Registries(cmd)
    /\ args \in TokenSeqs(IF cmd = "upgrade" THEN 0 ELSE 1)
    /\ stdin \in IF cmd = "upgrade" THEN { << >> } ELSE Scripts
    /\ pc = IF args = << >> THEN "all" ELSE "parse"
    /\ ti = 1
    /\ items = << >>
    /\ groups = << >>
    /\ providers_full = << >>
    /\ si = IF args = << >> THEN 1 ELSE 0
    /\ all_results = << >>
    /\ queried = << >>
    /\ origin = << >>
    /\ di = 0
    /\ log = << >>
    /\ exit = "running"
    /\ VersionIdle
    /\ DiscoveryIdle

Next ==
    \/ ParseExplicit
    \/ ParseAmbiguous
    \/ ItemsDone
    \/ ItemStart
    \/ SearchStep
    \/ PresentAdd
    \/ ListStep
    \/ PresentRemove
    \/ ParseDone
    \/ DispatchAdd
    \/ DispatchRemove
    \/ Finish
    \/ UpgradeAllStep
    \/ UpgradeAllDone
    \/ UpgradeParse
    \/ UpgradeParseDone
    \/ UpgradeFull
    \/ UpgradeFullDone
    \/ UpgradePkgs
    \/ Interrupt

Spec == Init /\ [][Next]_vars

\* no command is looked at
CommandIdle ==
    /\ managers = << >> /\ cmd = "none" /\ args = << >> /\ stdin = << >>
    /\ pc = "idle" /\ ti = 0 /\ items = << >> /\ groups = << >>
    /\ providers_full = << >> /\ si = 0 /\ all_results = << >>
    /\ queried = << >> /\ origin = << >> /\ di = 0 /\ log = << >>
    /\ exit = "running"

\* one call of _extract_version(store_paths, pkg_name)
InitVersion ==
    /\ store_paths \in StorePathLists
    /\ pkg_name \in PkgNames
    /\ vpc = "call"
    /\ refq = NoQuery
    /\ version = << >>
    /\ CommandIdle
    /\ DiscoveryIdle

NextVersion ==
    \/ ExtractPrimary
    \/ ResolveFallback

SpecVersion == InitVersion /\ [][NextVersion]_vars

\* a process whose threads have not called get_instance yet
InitDiscovery ==
    /\ instance = 0
    /\ objs = << >>
    /\ tpc = [t \in Threads |-> "idle"]
    /\ tobj = [t \in Threads |-> 0]
    /\ tmi = [t \in Threads |-> 0]
    /\ calls = [t \in Threads |-> 0]
    /\ returned = << >>
    /\ dlog = << >>
    /\ CommandIdle
    /\ VersionIdle

NextDiscovery ==
    \/ \E t \in Threads : GetInstance(t)
    \/ \E t \in Threads : Construct(t)
    \/ \E t \in Threads : LoadModule(t)
    \/ \E t \in Threads : SetInstance(t)
    \/ \E t \in Threads : ReturnInstance(t)

SpecDiscovery == InitDiscovery /\ [][NextDiscovery]_vars

----------------------------------------------------------------------------
(* What the claims are stated with *)

Ended == pc \in { "done", "raised", "exited" }

InSeq(x, q) == \E k \in 1..Len(q) : q[k] = x

\* the index of provider p in the registry
RegIndex(p) == CHOOSE k \in 1..Len(managers) : managers[k] = p

\* the item lists the tokens of the command lines are expected to yield
ExpectedItems(tok) ==
    IF tok = TokExplicit THEN << ItemA, ItemB >>
    ELSE IF tok = TokTrailing THEN << ItemA >>
    ELSE IF tok = TokTwoHashes THEN << << "a", "#", "b" >> >>
    ELSE IF tok = TokNoItems THEN << >>
    ELSE IF tok = TokNoProvider THEN << ItemA >>
    ELSE IF tok = TokBare THEN << ItemA >>
    ELSE IF tok = TokBareList THEN << << "A" >>, ItemB >>
    ELSE << tok >>

\* the provider prefix the tokens of the command lines are expected to carry
ExpectedPrefix(tok) ==
    IF tok \in { TokExplicit, TokTwoHashes, TokNoItems } THEN FLATPAK
    ELSE IF tok = TokTrailing THEN NIXPKGS
    ELSE << >>

Qualified(tok) ==
    tok \in { TokExplicit, TokTrailing, TokTwoHashes, TokNoItems, TokNoProvider }

\* the user picked entry x for provider p at a prompt: the trace shows the
\* item's search or scan, then an answer read, then the selection
Disambiguated(p, x) ==
    \E i, j, k \in 1..Len(log) :
        /\ i < j /\ j < k
        /\ log[i].ev \in { "search_all", "scan_installed" }
        /\ log[j].ev = "input" /\ log[j].tok = log[i].tok
        /\ log[k].ev = "selected" /\ log[k].tok = log[i].tok
        /\ log[k].prov = p /\ log[k].pkgs = << x >>

----------------------------------------------------------------------------
(* C1 *)

----------------------------------------------------------------------------
(* C2 *)

\* C2: in add and remove, the step that handles a token P#a,b,c appends
\* exactly its items, in order, to the group of P, leaves every other group
\* alone, goes on to the next token without a search, a scan of the installed
\* lists or a prompt, and nothing in the trace is ever attributed to such a
\* token.
C2_ExplicitToken ==
    /\ [](\A e \in 1..Len(log) : log[e].tok # 0 => ~Qualified(args[log[e].tok]))
    /\ [][(pc = "parse" /\ cmd \in { "add", "remove" } /\ ti <= Len(args)
           /\ Qualified(args[ti]))
          => /\ GroupOf(groups', ExpectedPrefix(args[ti]))
                  = GroupOf(groups, ExpectedPrefix(args[ti])) \o ExpectedItems(args[ti])
             /\ \A p \in { FLATPAK, NIXPKGS, << >> } \ { ExpectedPrefix(args[ti]) } :
                   GroupOf(groups', p) = GroupOf(groups, p)
             /\ HasGroup(groups', ExpectedPrefix(args[ti]))
             /\ log' = log /\ stdin' = stdin
             /\ pc' = "parse" /\ ti' = ti + 1]_vars

\* the token flatpak#a, b was handled in a remove: flatpak's group is [a, b]
\* and nothing was searched, listed or asked
C2_Witness ==
    /\ cmd = "remove" /\ args[1] = TokExplicit /\ ti = 2
    /\ groups = << [prov |-> FLATPAK, pkgs |-> << ItemA, ItemB >>] >>
    /\ log = << >>

----------------------------------------------------------------------------
(* C3 *)

RECURSIVE ConcatSucceeded(_)
\* the results of the providers whose search was made and returned, in the
\* order the providers were reached
ConcatSucceeded(q) ==
    IF q = << >> THEN << >>
    ELSE ConcatSucceeded(SubSeq(q, 1, Len(q) - 1))
         \o (IF q[Len(q)].avail /\ ~q[Len(q)].raised THEN q[Len(q)].results ELSE << >>)

\* C3: while search_all runs and when it returns, the command has not ended
\* with an exception, all_results is exactly the concatenation of the results
\* of the providers whose search succeeded, and the loop has gone on to every
\* provider after a failing one: at the return every registered provider has
\* been reached.
C3_SearchAllTolerant ==
    pc = "search" =>
        /\ exit = "running"
        /\ Len(queried) = si - 1
        /\ \A k \in 1..Len(queried) : queried[k].prov = managers[k]
        /\ all_results = ConcatSucceeded(queried)

\* search_all is about to return: the first provider's search raised, the
\* second one's returned two results, and these two are the list returned
C3_Witness ==
    /\ pc = "search" /\ si > Len(managers)
    /\ queried[1].avail /\ queried[1].raised
    /\ queried[2].avail /\ ~queried[2].raised /\ Len(queried[2].results) = 2
    /\ all_results = queried[2].results

----------------------------------------------------------------------------
(* C4 *)

\* C4: every entry of search_all's list is the entry its provider returned
\* at that position, of a provider whose is_available() was true when the
\* loop reached it; entries of an earlier registered provider come before
\* those of a later one, and entries of one provider keep the provider's own
\* order.
C4_RegistrationOrder ==
    pc = "search" =>
        /\ Len(origin) = Len(all_results)
        /\ \A i \in 1..Len(origin) :
              LET k == RegIndex(origin[i].prov)
              IN  /\ k <= Len(queried)
                  /\ queried[k].avail
                  /\ origin[i].pos <= Len(queried[k].results)
                  /\ all_results[i] = queried[k].results[origin[i].pos]
        /\ \A i, j \in 1..Len(origin) :
              i < j =>
                 \/ RegIndex(origin[i].prov) < RegIndex(origin[j].prov)
                 \/ /\ origin[i].prov = origin[j].prov
                    /\ origin[i].pos < origin[j].pos
        /\ \A k \in 1..Len(queried) :
              ~queried[k].avail => \A i \in 1..Len(origin) : origin[i].prov # managers[k]

\* search_all is about to return: both providers were available and returned
\* results, flatpak's two come first, then nixpkgs's
C4_Witness ==
    /\ pc = "search" /\ si > Len(managers)
    /\ Len(all_results) = 3
    /\ origin[1] = [prov |-> FLATPAK, pos |-> 1]
    /\ origin[2] = [prov |-> FLATPAK, pos |-> 2]
    /\ origin[3] = [prov |-> NIXPKGS, pos |-> 1]

----------------------------------------------------------------------------
(* C5 *)

\* C5: every entry of search_all's list carries in 'provider' the name of
\* the provider whose search returned it, whatever the adapter put there
C5_ProviderFilledByCaller ==
    pc = "search" =>
        \A i \in 1..Len(all_results) :
            i <= Len(origin) => all_results[i].provider = origin[i].prov

----------------------------------------------------------------------------
(* C6 *)

\* C6: in add and remove, no provider's group holds the same identifier twice
C6_NoDuplicateInGroup ==
    cmd \in { "add", "remove" } =>
        \A g \in 1..Len(groups) : \A m, n \in 1..Len(groups[g].pkgs) :
            groups[g].pkgs[m] = groups[g].pkgs[n] => m = n

----------------------------------------------------------------------------
(* C7 *)

\* the installed lists the scan got hold no name that contains the item
NoInstalledName(item) ==
    \A k \in 1..Len(queried) :
        (queried[k].avail /\ ~queried[k].raised) =>
            \A e \in 1..Len(queried[k].results) :
                ~Contains(Lower(queried[k].results[e].name), Lower(item))

\* every match is in its provider's group already
AllScheduled ==
    \A m \in 1..Len(all_results) :
        InSeq(IF all_results[m].id # << >> THEN all_results[m].id ELSE all_results[m].name,
              GroupOf(groups, all_results[m].provider))

\* C7: in remove, when the scan of the installed lists is over and no
\* installed name contains the item, the step schedules nothing, prints the
\* 'no installed packages found' warning for the item and goes on to the next
\* item; when there are matches and every one is scheduled already, the step
\* schedules nothing, reads no answer and goes on to the next item without a
\* prompt.
C7_RemoveNothingToAsk ==
    /\ [][(pc = "list" /\ si > Len(managers) /\ NoInstalledName(Head(items)))
          => /\ groups' = groups
             /\ log' = Append(log, Ev("warn", "no_installed_match", << >>,
                                      << Head(items) >>, ti))
             /\ stdin' = stdin
             /\ pc' = "items" /\ items' = Tail(items)]_vars
    /\ [][(pc = "list" /\ si > Len(managers) /\ all_results # << >> /\ AllScheduled)
          => /\ groups' = groups
             /\ log'[Len(log')].ev # "warn"
             /\ stdin' = stdin
             /\ pc' = "items" /\ items' = Tail(items)]_vars

\* a remove of nixpkgs#a, and " A,b,": item A matched only the installed a of
\* nixpkgs, scheduled already, and was passed over without a prompt; item b
\* matched nothing and got the warning; the group is still [a]
C7_Witness ==
    /\ cmd = "remove" /\ args = << TokTrailing, TokBareList >>
    /\ groups = << [prov |-> NIXPKGS, pkgs |-> << ItemA >>] >>
    /\ \E i, j \in 1..Len(log) :
          /\ i < j
          /\ log[i].ev = "info" /\ log[i].what = "already_selected"
          /\ log[i].pkgs = << << "A" >> >>
          /\ log[j].ev = "warn" /\ log[j].what = "no_installed_match"
          /\ log[j].pkgs = << ItemB >>

----------------------------------------------------------------------------
(* C8 *)

\* an item as comma-splitting leaves it: not empty, no blank at either end,
\* no comma inside
WellSplit(x) == x # << >> /\ Head(x) # " " /\ x[Len(x)] # " " /\ ~HasChar(x, ",")

\* C8: in add, remove and upgrade, every item a token puts in a group is a
\* trimmed, non-empty piece of the token's comma-separated list
C8_ItemsAreSplit ==
    \A g \in 1..Len(groups) : \A n \in 1..Len(groups[g].pkgs) :
        WellSplit(groups[g].pkgs[n])

----------------------------------------------------------------------------
(* C9 *)

\* C9: when an add or remove command has ended, every token that was handled
\* and has a provider prefix with an empty item list got a warning, install /
\* uninstall was never called with an empty list, and a command that
\* scheduled no item did not report success
C9_EmptyListIsNoSelection ==
    (cmd \in { "add", "remove" } /\ Ended) =>
        /\ \A t \in 1..Len(args) :
              (t < ti /\ args[t] = TokNoItems) =>
                  \E e \in 1..Len(log) : log[e].ev = "warn" /\ log[e].tok = t
        /\ \A e \in 1..Len(log) :
              log[e].ev \in { "install", "uninstall" } => log[e].pkgs # << >>
        /\ (\A g \in 1..Len(groups) : groups[g].pkgs = << >>) =>
              ~\E e \in 1..Len(log) : log[e].ev = "success"

----------------------------------------------------------------------------
(* C10 *)

\* the number an answer stands for, 0 when it stands for none
AnswerNumber(a) == IF a = "1" THEN 1 ELSE IF a = "2" THEN 2 ELSE 0

\* C10: in add, once the numbered list of N results was shown for an item and
\* the user's answer is a number k in 1..N, the command does not end before
\* the identifier of results[k-1] (its id, or its name when it has no id) is
\* the last entry of the group of results[k-1]'s provider
C10_SelectionScheduled ==
    (/\ cmd = "add" /\ Ended
     /\ \E e \in 1..Len(log) : log[e].ev = "print" /\ log[e].what = "found_matches"
     /\ AnswerNumber(Head(stdin)) \in 1..Len(all_results))
    => LET r == all_results[AnswerNumber(Head(stdin))]
           g == GroupOf(groups, r.provider)
       IN  /\ g # << >>
           /\ g[Len(g)] = (IF r.id # << >> THEN r.id ELSE r.name)

----------------------------------------------------------------------------
(* C11 *)

\* the numbered list of candidates was shown for an item
Presented ==
    \E e \in 1..Len(log) : log[e].ev = "print" /\ log[e].what = "found_matches"

\* C11: in add and remove, when the list was shown for an item and the
\* user's answer skips it ('s') or, in add, is no number of the list, the
\* command goes on with the later items and tokens: it ends only after the
\* last token was handled, and the answer scheduled nothing
C11_DroppedItemGoesOn ==
    (/\ cmd \in { "add", "remove" } /\ Ended /\ exit # "interrupted"
     /\ Presented
     /\ \/ Head(stdin) = "s"
        \/ cmd = "add" /\ AnswerNumber(Head(stdin)) \notin 1..Len(all_results))
    => /\ ti > Len(args)
       /\ ~\E e \in 1..Len(log) : log[e].ev = "selected"

----------------------------------------------------------------------------
(* C12 *)

\* C12: in remove, when the list was shown for an item and the user types
\* 'a' and then 'Y', both answers are read, 'Y' being no lowercase 'y'
\* schedules nothing, and the command goes on to its end
C12_BulkNeedsLowercaseY ==
    (/\ cmd = "remove" /\ Ended /\ exit # "interrupted"
     /\ Presented
     /\ stdin = << "a", "Y" >>)
    => /\ \E i, j \in 1..Len(log) :
             i < j /\ log[i].ev = "input" /\ log[j].ev = "input"
       /\ ~\E e \in 1..Len(log) : log[e].ev = "selected"
       /\ ti > Len(args)

----------------------------------------------------------------------------
(* C13 *)

\* no item is scheduled: there is no group, or every group is empty
NothingScheduled == \A g \in 1..Len(groups) : groups[g].pkgs = << >>

\* C13: in add and remove, while nothing is scheduled no install or
\* uninstall is called, and a command that ends with nothing scheduled has
\* warned 'no packages selected' last and returned normally
C13_NothingScheduledWarns ==
    (cmd \in { "add", "remove" } /\ NothingScheduled) =>
        /\ \A e \in 1..Len(log) : log[e].ev \notin { "install", "uninstall" }
        /\ (Ended /\ exit # "interrupted") =>
              /\ exit = "returned"
              /\ log # << >>
              /\ log[Len(log)] = Ev("warn", "none_selected", << >>, << >>, 0)

----------------------------------------------------------------------------
(* C14 *)

\* trace event e is a provider's subprocess that failed
FailedRun(e) == log[e].ev = "run" /\ log[e].what \in { "exit1", "exit2" }

\* C14: once a subprocess of install, uninstall or upgrade has failed, the
\* process has exited with that subprocess's exit code, and the trace holds
\* nothing after the failure but its report: no subprocess for the group's
\* remaining packages, no call for a group not yet dispatched
C14_FailureEndsCommand ==
    \A e \in 1..Len(log) :
        FailedRun(e) =>
            /\ pc = "exited"
            /\ exit = log[e].what
            /\ ExitStatus(exit) = (IF log[e].what = "exit1" THEN 1 ELSE 2)
            /\ Len(log) = e + 1
            /\ log[e + 1].ev = "error" /\ log[e + 1].what = "failed_to_execute"

\* remove flatpak#a, b nixpkgs#a, : the uninstall of the first flatpak
\* package failed with code 2; package b and the nixpkgs group were left
C14_Witness ==
    /\ cmd = "remove" /\ args = << TokExplicit, TokTrailing >>
    /\ Len(groups) = 2 /\ groups[1].pkgs = << ItemA, ItemB >>
    /\ pc = "exited" /\ exit = "exit2"
    /\ Len(log) = 3
    /\ log[1] = Ev("uninstall", "called", FLATPAK, << ItemA, ItemB >>, 0)
    /\ log[2] = Ev("run", "exit2", FLATPAK, << ItemA >>, 0)

----------------------------------------------------------------------------
(* C15 *)

\* the mutating steps of the trace
MutatingEvents == { "install", "uninstall", "upgrade", "run" }

\* C15: in add, remove and upgrade, the dispatch of a group whose provider
\* name is not in the registry (the empty name of '#a' included) logs the
\* 'not found' warning first, calls no provider, and leaves the command
\* running at the next group; and no call is ever made under a name that is
\* not registered
C15_UnknownProviderDropped ==
    /\ [][(pc = "dispatch" /\ di <= Len(groups)
             /\ ~InSeq(groups[di].prov, managers))
          => /\ Len(log') > Len(log)
             /\ log'[Len(log) + 1] = Ev("warn", "not_found", groups[di].prov, << >>, 0)
             /\ \A e \in (Len(log) + 1)..Len(log') : log'[e].ev \notin MutatingEvents
             /\ di' = di + 1 /\ pc' = "dispatch" /\ exit' = "running"
             /\ groups' = groups]_vars
    /\ [](\A e \in 1..Len(log) :
             log[e].ev \in MutatingEvents => InSeq(log[e].prov, managers))

\* add #a flatpak#a, b ran to its end: the group of the empty provider name
\* was warned about and the flatpak group, dispatched after it, was installed
C15_Witness ==
    /\ cmd = "add" /\ args = << TokNoProvider, TokExplicit >> /\ pc = "done"
    /\ groups = << [prov |-> << >>, pkgs |-> << ItemA >>],
                   [prov |-> FLATPAK, pkgs |-> << ItemA, ItemB >>] >>
    /\ \E i, j \in 1..Len(log) :
          /\ i < j
          /\ log[i] = Ev("warn", "not_found", << >>, << >>, 0)
          /\ log[j] = Ev("run", "ok", FLATPAK, << ItemA, ItemB >>, 0)

----------------------------------------------------------------------------
(* C16 *)

\* C16: in add, remove and upgrade, no operation is called on a provider
\* whose is_available() is false, and the dispatch of a group whose provider
\* is registered either calls the provider or logs a message about it
C16_UnavailableProviderWarned ==
    /\ [](\A e \in 1..Len(log) :
             log[e].ev \in { "install", "uninstall", "upgrade" }
                 => log[e].what # "unavailable")
    /\ [][(pc = "dispatch" /\ di <= Len(groups)
             /\ InSeq(groups[di].prov, managers))
          => Len(log') > Len(log)]_vars

----------------------------------------------------------------------------
(* C17 *)

\* the status utils.run ends the process with after an interrupt
InterruptedStatus == 130

\* C17: a process the user interrupted, during an adapter's query or during
\* a mutating subprocess, ended with the interrupted status, which is not
\* the status of success, and wrote nothing after the interrupt
C17_OneInterruptedStatus ==
    exit \in { "interrupted", "cancelled" } =>
        /\ ExitStatus(exit) = InterruptedStatus
        /\ ExitStatus(exit) # ExitStatus("returned")
        /\ log[Len(log)].ev \notin { "print", "warn" }

----------------------------------------------------------------------------
(* C18 *)

\* C18: in upgrade, the step that handles a token equal to a registered
\* provider's name records a full upgrade of that provider and leaves the
\* groups alone; no group ever holds a registered provider's name as a
\* package; and the dispatch of a recorded full upgrade calls upgrade(None)
\* on that provider or, the provider being unavailable, nothing
C18_ProviderNameIsFullUpgrade ==
    /\ [][(cmd = "upgrade" /\ pc = "parse" /\ ti <= Len(args)
             /\ InSeq(args[ti], managers))
          => /\ providers_full' = Append(providers_full, args[ti])
             /\ groups' = groups]_vars
    /\ [](cmd = "upgrade" =>
             \A g \in 1..Len(groups) : \A n \in 1..Len(groups[g].pkgs) :
                 ~InSeq(groups[g].pkgs[n], managers))
    /\ [][(pc = "full" /\ di <= Len(providers_full))
          => \/ log' = log
             \/ /\ Len(log') > Len(log)
                /\ log'[Len(log) + 1] =
                      Ev("upgrade", "called", providers_full[di], << >>, 0)]_vars

\* upgrade nixpkgs a ran to its end: upgrade(None) was called on nixpkgs,
\* then upgrade(['a']), and the nixpkgs group holds 'a' only
C18_Witness ==
    /\ cmd = "upgrade" /\ args = << TokProviderName, TokBare >> /\ pc = "done"
    /\ providers_full = << NIXPKGS >>
    /\ groups = << [prov |-> NIXPKGS, pkgs |-> << ItemA >>] >>
    /\ \E i, j \in 1..Len(log) :
          /\ i < j
          /\ log[i] = Ev("upgrade", "called", NIXPKGS, << >>, 0)
          /\ log[j] = Ev("upgrade", "called", NIXPKGS, << ItemA >>, 0)

----------------------------------------------------------------------------
(* C19 *)

\* C19: in upgrade, once an unqualified token that is no registered
\* provider's name was handled, each item of its comma-separated list is an
\* entry of the default provider's group, and every entry of that group is
\* a trimmed, comma-free item
C19_UpgradeSplitsBareToken ==
    cmd = "upgrade" =>
        \A t \in 1..Len(args) :
            (t < ti /\ ~Qualified(args[t]) /\ ~InSeq(args[t], managers)) =>
                /\ \A k \in 1..Len(ExpectedItems(args[t])) :
                      InSeq(ExpectedItems(args[t])[k], GroupOf(groups, NIXPKGS))
                /\ \A n \in 1..Len(GroupOf(groups, NIXPKGS)) :
                      WellSplit(GroupOf(groups, NIXPKGS)[n])

----------------------------------------------------------------------------
(* C20 *)

\* the one hit of the end-to-end run: found by nixpkgs, with a qualified id
E2EHit == Result(ItemA, NIXPKGS \o << "#" >> \o ItemA, NIXPKGS)

\* install was called on provider p with exactly the list k, and only once
InstalledOnce(p, k) ==
    /\ \E e \in 1..Len(log) : log[e] = Ev("install", "called", p, k, 0)
    /\ \A e, f \in 1..Len(log) :
          (log[e].ev = "install" /\ log[f].ev = "install"
           /\ log[e].prov = p /\ log[f].prov = p) => e = f

\* C20: add with a flatpak token of two items and a bare token whose search
\* returns one nixpkgs hit with a qualified id, the user answering '1': when
\* the command has ended the groups are flatpak's two items and nixpkgs's
\* hit id, and unless a subprocess failed or was interrupted, install was
\* called once on each of the two providers with its group's list
C20_EndToEndAdd ==
    (/\ cmd = "add" /\ args = << TokExplicit, TokBare >> /\ stdin = << "1" >>
     /\ Ended /\ exit # "interrupted"
     /\ \E e \in 1..Len(log) : log[e].ev = "search_all" /\ log[e].tok = 2
     /\ all_results = << E2EHit >>)
    => /\ groups = << [prov |-> FLATPAK, pkgs |-> << ItemA, ItemB >>],
                      [prov |-> NIXPKGS, pkgs |-> << E2EHit.id >>] >>
       /\ exit = "returned" =>
             /\ InstalledOnce(FLATPAK, << ItemA, ItemB >>)
             /\ InstalledOnce(NIXPKGS, << E2EHit.id >>)

----------------------------------------------------------------------------
(* C21 *)

\* the position of the leftmost '-' of nv that a digit follows
LeftmostDashDigit(nv) ==
    CHOOSE i \in 1..Len(nv) :
        /\ nv[i] = "-" /\ i < Len(nv) /\ IsDigit(nv[i + 1])
        /\ \A j \in 1..(i - 1) : ~(nv[j] = "-" /\ IsDigit(nv[j + 1]))

\* C21: when _extract_version has returned for a first store path
\* /nix/store/<32-character hash>-<rest> whose rest has a '-' that a digit
\* follows, the version is the rest from the digit after the leftmost such
\* '-' on; for <hash>-bottles-unwrapped-60.1 it is 60.1
C21_LeftmostDashDigit ==
    (vpc = "returned" /\ store_paths # << >>) =>
        /\ \A nv \in NameVers :
              (/\ store_paths[1] = StorePath(Hashed(nv))
               /\ \E i \in 1..(Len(nv) - 1) : nv[i] = "-" /\ IsDigit(nv[i + 1]))
              => version = SubSeq(nv, LeftmostDashDigit(nv) + 1, Len(nv))
        /\ store_paths[1] = StorePath(Hashed(BottlesNameVer))
              => version = << "6", "0", ".", "1" >>

\* _extract_version returned 60.1 for <hash>-bottles-unwrapped-60.1
C21_Witness ==
    /\ vpc = "returned"
    /\ store_paths = << StorePath(Hashed(BottlesNameVer)) >>
    /\ version = << "6", "0", ".", "1" >>

----------------------------------------------------------------------------
(* C22 *)

\* C22: in upgrade, when nixpkgs is not registered and the registry is not
\* empty, every handled token that has no provider prefix and is no
\* registered provider's name has put its text, or one of its
\* comma-separated items, in the group of the first registered provider
C22_DefaultFallsBackToFirst ==
    (cmd = "upgrade" /\ managers # << >> /\ ~InSeq(NIXPKGS, managers)) =>
        \A t \in 1..Len(args) :
            (t < ti /\ ~Qualified(args[t]) /\ ~InSeq(args[t], managers)) =>
                \E n \in 1..Len(GroupOf(groups, managers[1])) :
                    \/ GroupOf(groups, managers[1])[n] = args[t]
                    \/ InSeq(GroupOf(groups, managers[1])[n], ExpectedItems(args[t]))

----------------------------------------------------------------------------
(* C23 *)

\* entry m of the presented list was returned by list_packages() of its
\* provider, which was available, and its name contains the item, letter
\* case ignored
FromAvailableList(m, item) ==
    \E k \in 1..Len(queried) :
        /\ queried[k].prov = m.provider
        /\ queried[k].avail /\ ~queried[k].raised
        /\ \E e \in 1..Len(queried[k].results) :
              /\ queried[k].results[e].name = m.name
              /\ queried[k].results[e].id = m.id
        /\ Contains(Lower(m.name), Lower(item))

\* C23: in remove, when the numbered list is presented for an item, no
\* entry of it is in its provider's group already, and every entry comes
\* from the installed list of an available provider and matches the item
C23_PresentedListIsFiltered ==
    (cmd = "remove" /\ Presented /\ pc = "raised") =>
        \A m \in 1..Len(all_results) :
            /\ ~InSeq(PkgId(all_results[m]),
                      GroupOf(groups, all_results[m].provider))
            /\ FromAvailableList(all_results[m], Head(items))

\* remove nixpkgs#a, a : nixpkgs lists Ab (id x) and a; a is scheduled
\* already, so the presented list holds Ab alone
C23_Witness ==
    /\ cmd = "remove" /\ args = << TokTrailing, TokBare >> /\ pc = "raised"
    /\ Presented
    /\ groups = << [prov |-> NIXPKGS, pkgs |-> << ItemA >>] >>
    /\ all_results = << [name |-> << "A", "b" >>, id |-> << "x" >>,
                         provider |-> NIXPKGS] >>
    /\ \E k \in 1..Len(queried) :
          /\ queried[k].prov = NIXPKGS /\ queried[k].avail
          /\ Len(queried[k].results) = 2

----------------------------------------------------------------------------
(* C24 *)

\* C24: in remove, when the list was presented for an item and the user
\* types 'a' and then 'y', the command does not end before every entry of
\* the presented list is in its provider's group
C24_BulkSchedulesAll ==
    (/\ cmd = "remove" /\ Ended /\ exit # "interrupted"
     /\ Presented
     /\ stdin = << "a", "y" >>)
    => \A m \in 1..Len(all_results) :
           InSeq(PkgId(all_results[m]), GroupOf(groups, all_results[m].provider))

----------------------------------------------------------------------------
(* C25 *)

\* C25: whatever the threads' get_instance calls and however they overlap,
\* at most one ModuleManager is constructed, so that discover_modules runs
\* at most once, and every call returns the same object
C25_OneRegistry ==
    /\ Len(objs) <= 1
    /\ \A i, j \in 1..Len(returned) : returned[i] = returned[j]

----------------------------------------------------------------------------
(* C26 *)

\* discovery logged a warning about package m while constructing object o
Warned(o, m) == \E w \in 1..Len(dlog) : dlog[w].obj = o /\ dlog[w].module = m

\* C26: for every package discovery has handled, the adapter is registered
\* under its name when it loaded, and is left out with a warning when its
\* import or construction raised, whatever the exception
C26_BrokenAdapterWarned ==
    \A o \in 1..Len(objs) : \A k \in 1..Len(objs[o].outcomes) :
        IF objs[o].outcomes[k] = LoadedOk
        THEN InSeq(Packages[k], objs[o].managers)
        ELSE ~InSeq(Packages[k], objs[o].managers) /\ Warned(o, Packages[k])

----------------------------------------------------------------------------
(* C27 *)

\* the name segment of path p, where /nix/store/<name> has it
Segment(p) ==
    IF p = NotAString \/ Len(Split(p, "/")) < 4 THEN << >> ELSE Split(p, "/")[4]

\* path p has, after the hash prefix of its name segment, a '-' that a
\* digit follows
HasVersionText(p) ==
    \E i \in (HashPrefixLen + 1)..(Len(Segment(p)) - 1) :
        Segment(p)[i] = "-" /\ IsDigit(Segment(p)[i + 1])

\* C27: _extract_version never raises; when it has returned, the version is
\* a non-empty string, and it is "unknown" when neither the first store
\* path nor any line of the reference query that contains the package name
\* has a '-' followed by a digit after the hash prefix (no store path, a
\* failed or non-zero query and an empty output included)
C27_VersionNeverRaises ==
    /\ vpc # "raised"
    /\ vpc = "returned" =>
          /\ version # << >>
          /\ (/\ store_paths = << >> \/ ~HasVersionText(store_paths[1])
              /\ \A l \in 1..Len(refq.lines) :
                    Contains(refq.lines[l], pkg_name) =>
                        ~HasVersionText(Strip(refq.lines[l])))
             => version = UNKNOWN

\* the first store path has no version and the reference query raised:
\* _extract_version returned "unknown"
C27_Witness ==
    /\ vpc = "returned" /\ version = UNKNOWN
    /\ store_paths = << StorePath(Hashed(<< "b" >>)) >>
    /\ pkg_name = << "b" >>
    /\ refq = QueryRaised

----------------------------------------------------------------------------
(* C28 *)

\* the first token of the command line that carries provider prefix p, 0
\* when there is none
FirstToken(p) ==
    IF \E t \in 1..Len(args) : Qualified(args[t]) /\ ExpectedPrefix(args[t]) = p
    THEN CHOOSE t \in 1..Len(args) :
            /\ Qualified(args[t]) /\ ExpectedPrefix(args[t]) = p
            /\ \A u \in 1..(t - 1) :
                  ~(Qualified(args[u]) /\ ExpectedPrefix(args[u]) = p)
    ELSE 0

\* trace event e is the engine's call of install or uninstall
IsCall(e) == log[e].ev \in { "install", "uninstall" }

\* C28: in add and remove, once install or uninstall has been called the
\* token loop is over, nothing is searched, listed, shown or asked after the
\* call, no provider is called twice, and the providers are called in the
\* order their groups were created
C28_ResolveThenDispatch ==
    cmd \in { "add", "remove" } =>
        /\ (\E e \in 1..Len(log) : IsCall(e)) =>
              /\ ti > Len(args) /\ items = << >>
              /\ pc \in { "dispatch", "done", "exited" }
        /\ \A i, j \in 1..Len(log) :
              (i < j /\ IsCall(i)) =>
                  /\ log[j].ev \notin { "search_all", "scan_installed", "print", "input" }
                  /\ IsCall(j) =>
                        /\ log[i].prov # log[j].prov
                        /\ FirstToken(log[i].prov) < FirstToken(log[j].prov)

\* add a flatpak#a, b ran to its end: item a was searched for (no result),
\* then the second token was handled, and only then install was called
C28_Witness ==
    /\ cmd = "add" /\ args = << TokBare, TokExplicit >> /\ pc = "done"
    /\ \E i, j, k \in 1..Len(log) :
          /\ i < j /\ j < k
          /\ log[i].ev = "search_all" /\ log[i].tok = 1
          /\ log[j] = Ev("install", "called", FLATPAK, << ItemA, ItemB >>, 0)
          /\ log[k].ev = "success"

----------------------------------------------------------------------------
(* C29 *)

\* trace event e is upgrade(None)
IsFullUpgrade(e) == log[e].ev = "upgrade" /\ log[e].pkgs = << >>

\* trace event e is upgrade(pkgs) with a list of packages
IsPkgUpgrade(e) == log[e].ev = "upgrade" /\ log[e].pkgs # << >>

\* C29: in upgrade, no upgrade(None) comes after an upgrade(pkgs); with no
\* token, every upgrade is an upgrade(None), the providers are called in
\* registration order, and each step of the loop takes the next registered
\* provider and either calls upgrade(None) on it or, the provider being
\* unavailable, passes it over
C29_FullUpgradesFirst ==
    /\ [](cmd = "upgrade" =>
             /\ \A i, j \in 1..Len(log) :
                   (i < j /\ IsPkgUpgrade(i)) => ~IsFullUpgrade(j)
             /\ args = << >> =>
                   /\ \A e \in 1..Len(log) : ~IsPkgUpgrade(e)
                   /\ \A i, j \in 1..Len(log) :
                         (i < j /\ IsFullUpgrade(i) /\ IsFullUpgrade(j)) =>
                             RegIndex(log[i].prov) < RegIndex(log[j].prov))
    /\ [][(pc = "all" /\ si <= Len(managers))
          => /\ si' = si + 1
             /\ \/ log' = log
                \/ /\ Len(log') > Len(log)
                   /\ log'[Len(log) + 1] =
                         Ev("upgrade", "called", managers[si], << >>, 0)]_vars

\* upgrade a nixpkgs ran to its end: upgrade(None) on nixpkgs, asked for by
\* the second token, came before upgrade(['a']), asked for by the first
C29_Witness ==
    /\ cmd = "upgrade" /\ args = << TokBare, TokProviderName >> /\ pc = "done"
    /\ managers = << FLATPAK, NIXPKGS >>
    /\ \E i, j \in 1..Len(log) :
          /\ i < j
          /\ log[i] = Ev("upgrade", "called", NIXPKGS, << >>, 0)
          /\ log[j] = Ev("upgrade", "called", NIXPKGS, << ItemA >>, 0)

====
